---- MODULE Spec2Model ----
(***************************************************************************)
(* Model of the content queue of social-app-scraper:                       *)
(*   handlers/db_handler.py   DatabaseHandler  (the bounded store)         *)
(*   handlers/news_queue.py   NewsQueue        (enqueue / pop)             *)
(*   schedule_script.py       scrape_news, process_news_queue              *)
(*                                                                         *)
(* The posts table is a set of rows, each with its AUTOINCREMENT id, so    *)
(* that two rows with one url are representable and uniqueness is a        *)
(* property of the operations, not of the representation.                  *)
(***************************************************************************)
EXTENDS Integers, Sequences, FiniteSets, TLC

\* ------------------------------------------------------------------ bounds
MaxId == 3          \* at most MaxId successful INSERTs in a run
MaxTime == 1        \* the clock runs 0..MaxTime
max_posts == 2      \* DatabaseHandler.max_posts, scaled down from 1000
MaxBatch == 2       \* longest candidate list handed to add_news
MaxPublish == 2     \* at most MaxPublish publish calls in a run
MaxSim == 2         \* similarities are 0..MaxSim, standing for 0.0 .. 1.0
MaxTicks == 4       \* at most MaxTicks jobs run by the scheduler loop
batch_size == 1     \* get_relevant_posts batch_size, scaled down from 40
DayLength == 2      \* clock ticks in a day

\* ------------------------------------------------------------ value sets
URLS == {"u1", "u2", "u3"}
Sources == {"bbc"}
None == "None"                  \* Python None / SQL NULL for text values
NoCreated == 0 - 1              \* Post.created_at is None

Truthy(x) == x \notin {None, ""}

\* a Post object (common/models/models.py): the fields the store and the
\* pipeline read.  ukr stands for the three columns english_summary,
\* ukrainian_title, ukrainian_summary; tr for the attributes uk_title,
\* en_title, en_text, uk_text that the pipeline sets on the object; gid is
\* the id of the row the object was read from (0 for a fresh candidate).
Post(url, created_at, source, status, image_url, full_text, ukr, tr, gid) ==
    [url |-> url, created_at |-> created_at, source |-> source,
     status |-> status, image_url |-> image_url, full_text |-> full_text,
     ukr |-> ukr, tr |-> tr, gid |-> gid]

VARIABLES
    posts,      \* the posts table of the queue's database: a set of rows
    nextId,     \* next AUTOINCREMENT id
    now,        \* datetime.now()
    last,       \* the last call or pipeline step: its name, url argument,
                \*   success, the record count before it, the list it
                \*   returned and, for add_news, the rows its INSERTs wrote
    added_posts,\* add_news: the list being built
    cur_source, \* add_news: its source argument
    inserted,   \* history: the rows the running add_news has INSERTed, in order
    gemini_api_key, \* NewsQueue.gemini_api_key is set (TRUE) or None (FALSE)
    pc,         \* where the single scheduler thread is: "idle", "add_news",
                \*   "popped", "begin", "translate", "publish", "broadcast"
    batch,      \* process_news_queue: processed_posts, the in-memory copies
    idx,        \* position of the running for loop (add_news, process_news_queue)
    relevant,   \* process_news_queue: relevant_urls
    published,  \* history: number of APIHandler.add_post calls per url
    handed,     \* history: ids of the stored rows some pop has returned
    ml,         \* a call of filter_similar_posts: its arguments, the
                \*   similarity of the posts' texts, and its result
    callers,    \* concurrent callers of the store: for each, the operation
                \*   it is in, its position and its local variables
    sched,      \* run_scheduler: where it is, the job it ran last, the fault
                \*   that job met and where the fault ended
    rel         \* a call of get_relevant_posts: its shuffled posts, the
                \*   batch it is at, the model calls made for that batch
                \*   and for the whole call

storeVars == <<posts, nextId, now, last>>
queueVars == <<added_posts, cur_source, inserted, gemini_api_key>>
pipeVars == <<pc, batch, idx, relevant, published, handed>>
vars == <<posts, nextId, now, last, added_posts, cur_source,
          inserted, gemini_api_key,
          pc, batch, idx, relevant, published, handed, ml, callers,
          sched, rel>>
loopVars == <<sched, rel>>
callVars == <<ml, callers, loopVars>>

\* ---------------------------------------------------------------- store
UrlExists(tbl, url) == \E r \in tbl : r.url = url

\* SELECT id FROM posts ORDER BY created_at ASC LIMIT 1: any row of minimal
\* created_at (the order among equal keys is not specified by SQL)
Oldest(tbl) == {r \in tbl : \A q \in tbl : r.created_at <= q.created_at}

\* the table after the DELETE of add_post: one possible table per victim
Evict(tbl) == IF tbl = {} THEN {tbl} ELSE {tbl \ {v} : v \in Oldest(tbl)}

\* the constraints of CREATE TABLE that the INSERT can violate:
\* url UNIQUE, image_url NOT NULL
InsertOk(tbl, row) == ~UrlExists(tbl, row.url) /\ row.image_url # None

Row(id, post, source, t) ==
    [id |-> id, url |-> post.url,
     created_at |-> IF post.created_at = NoCreated THEN t ELSE post.created_at,
     source |-> source, status |-> post.status,
     image_url |-> post.image_url, full_text |-> post.full_text,
     ukr |-> post.ukr]

\* DatabaseHandler.add_post: the set of possible outcomes [tbl, nid, ret].
\* The connection context manager commits on every normal exit, also on the
\* return False of the inner except, so a DELETE that was executed stays.
add_post_NoExistsCheck(tbl, nid, post, source, t) ==
    LET row == Row(nid, post, source, t)
        evicted == IF Cardinality(tbl) >= max_posts THEN Evict(tbl) ELSE {tbl}
    IN  { IF row.image_url # None
          THEN [tbl |-> e \cup {row}, nid |-> nid + 1, ret |-> TRUE]
          ELSE [tbl |-> e, nid |-> nid, ret |-> FALSE] : e \in evicted }

add_post_NoEvict(tbl, nid, post, source, t) ==
    IF UrlExists(tbl, post.url)
    THEN {[tbl |-> tbl, nid |-> nid, ret |-> FALSE]}
    ELSE LET row == Row(nid, post, source, t)
         IN  { IF InsertOk(tbl, row)
               THEN [tbl |-> tbl \cup {row}, nid |-> nid + 1, ret |-> TRUE]
               ELSE [tbl |-> tbl, nid |-> nid, ret |-> FALSE] }

add_post_EvictNewest(tbl, nid, post, source, t) ==
    IF UrlExists(tbl, post.url)
    THEN {[tbl |-> tbl, nid |-> nid, ret |-> FALSE]}
    ELSE LET row == Row(nid, post, source, t)
             newest == {r \in tbl : \A q \in tbl : r.created_at >= q.created_at}
             evicted == IF Cardinality(tbl) >= max_posts
                        THEN {tbl \ {v} : v \in newest} ELSE {tbl}
         IN  { IF InsertOk(e, row)
               THEN [tbl |-> e \cup {row}, nid |-> nid + 1, ret |-> TRUE]
               ELSE [tbl |-> e, nid |-> nid, ret |-> FALSE] : e \in evicted }

add_post(tbl, nid, post, source, t) ==
    IF UrlExists(tbl, post.url)
    THEN {[tbl |-> tbl, nid |-> nid, ret |-> FALSE]}
    ELSE LET row == Row(nid, post, source, t)
             evicted == IF Cardinality(tbl) >= max_posts THEN Evict(tbl) ELSE {tbl}
         IN  { IF InsertOk(e, row)
               THEN [tbl |-> e \cup {row}, nid |-> nid + 1, ret |-> TRUE]
               ELSE [tbl |-> e, nid |-> nid, ret |-> FALSE] : e \in evicted }

\* the Post that get_all_posts builds from a row (status and full_text are
\* the row's values at the time of the SELECT)
RowToPost(r) ==
    Post(r.url, r.created_at, r.source, r.status, r.image_url, r.full_text,
         r.ukr, FALSE, r.id)

\* the lists ORDER BY created_at DESC can produce from a set of rows
Orderings(S) ==
    { f \in [1..Cardinality(S) -> S] :
        /\ \A i, j \in 1..Cardinality(S) : i # j => f[i] # f[j]
        /\ \A i, j \in 1..Cardinality(S) :
              i < j => f[i].created_at >= f[j].created_at }

\* a datetime of the model's clock: its date and its time of day
Day(t) == t \div DayLength

TimeOfDay(t) == t % DayLength

\* what sqlite3's default adapter stores for a datetime: isoformat(" ")
adapt_datetime(t) == <<Day(t), " ", TimeOfDay(t)>>

\* datetime.isoformat(): the date, "T", the time
isoformat(t) == <<Day(t), "T", TimeOfDay(t)>>

\* the code of a separator character
CharCode(c) == IF c = " " THEN 32 ELSE 84

\* SQLite's >= on two such texts: the first difference decides
TextGE(a, b) ==
    \/ a[1] > b[1]
    \/ /\ a[1] = b[1]
       /\ \/ CharCode(a[2]) > CharCode(b[2])
          \/ /\ CharCode(a[2]) = CharCode(b[2])
             /\ a[3] >= b[3]

\* DatabaseHandler.get_all_posts(source, status, since): an absent source or
\* status is None, since is <<>> when absent and <<t>> otherwise; the
\* created_at column is compared, as text, with since.isoformat()
get_all_posts(tbl, source, status, since) ==
    LET sel == { r \in tbl : /\ (Truthy(source) => r.source = source)
                             /\ (Truthy(status) => r.status = status)
                             /\ (since # <<>> =>
                                   TextGE(adapt_datetime(r.created_at),
                                          isoformat(since[1]))) }
    IN  { [i \in 1..Cardinality(sel) |-> RowToPost(f[i])] : f \in Orderings(sel) }

\* DatabaseHandler.get_recent_posts(days, source, status) at time t
get_recent_posts(tbl, days, source, status, t) ==
    get_all_posts(tbl, source, status, <<t - days * DayLength>>)

\* the Post that get_post_by_url builds from a row: its SELECT does not
\* read full_text, which keeps the default None of the dataclass
RowToLookupPost(r) ==
    Post(r.url, r.created_at, r.source, r.status, r.image_url, None,
         r.ukr, FALSE, r.id)

\* DatabaseHandler.get_post_by_url: the Post of a row the SELECT finds,
\* nothing (the empty set, for None) when it finds none
get_post_by_url(tbl, url) == { RowToLookupPost(r) : r \in {x \in tbl : x.url = url} }

update_post_status_Delete(tbl, url, status) ==
    [tbl |-> {r \in tbl : r.url # url}, ret |-> UrlExists(tbl, url)]

update_post_status_NoWrite(tbl, url, status) ==
    [tbl |-> tbl, ret |-> UrlExists(tbl, url)]

\* DatabaseHandler.update_post_status: UPDATE posts SET status WHERE url
update_post_status(tbl, url, status) ==
    [tbl |-> { IF r.url = url THEN [r EXCEPT !.status = status] ELSE r : r \in tbl },
     ret |-> UrlExists(tbl, url)]

\* DatabaseHandler.update_post: UPDATE ... WHERE url, all columns but url,
\* source and id taken from the object; image_url NOT NULL can refuse it
update_post(tbl, post, t) ==
    IF UrlExists(tbl, post.url) /\ post.image_url = None
    THEN [tbl |-> tbl, ret |-> FALSE]
    ELSE [tbl |-> { IF r.url = post.url
                    THEN [r EXCEPT !.image_url = post.image_url,
                                   !.ukr = post.ukr,
                                   !.created_at = IF post.created_at = NoCreated
                                                  THEN t ELSE post.created_at,
                                   !.status = post.status,
                                   !.full_text = post.full_text]
                    ELSE r : r \in tbl },
          ret |-> UrlExists(tbl, post.url)]

\* ---------------------------------------------------------------- queue
Range(f) == {f[i] : i \in DOMAIN f}

RECURSIVE SetStatus(_, _, _)
SetStatus(tbl, list, status) ==
    IF list = <<>> THEN tbl
    ELSE SetStatus(update_post_status(tbl, Head(list).url, status).tbl,
                   Tail(list), status)

\* NewsQueue.process_posts: list the queued posts, mark each one as
\* processing, return the list as it was read
process_posts(tbl) ==
    { [tbl |-> SetStatus(tbl, queued_posts, "processing"), ret |-> queued_posts] :
        queued_posts \in get_all_posts(tbl, None, "queued", <<>>) }

\* NewsQueue.pop_queue, which schedule_script.py:99 and the tests call and
\* news_queue.py does not define: list the queued posts, mark each one as
\* processed through the status-only update, return the list as it was read
pop_queue(tbl) ==
    { [tbl |-> SetStatus(tbl, queued_posts, "processed"), ret |-> queued_posts] :
        queued_posts \in get_all_posts(tbl, None, "queued", <<>>) }

\* NewsQueue.mark_as_processed: set status on each object and write it back
\* with update_post; True when every update_post returned True
RECURSIVE mark_as_processed(_, _, _)
mark_as_processed(tbl, list, t) ==
    IF list = <<>> THEN [tbl |-> tbl, ret |-> TRUE]
    ELSE LET one == update_post(tbl, [Head(list) EXCEPT !.status = "processed"], t)
             rest == mark_as_processed(one.tbl, Tail(list), t)
         IN  [tbl |-> rest.tbl, ret |-> one.ret /\ rest.ret]

\* DatabaseHandler.wipe_database: DELETE FROM posts
wipe_database(tbl) == [tbl |-> {}, ret |-> TRUE]

\* DatabaseHandler.get_post_source: the source of a row with that url, or None
get_post_source(tbl, url) ==
    IF UrlExists(tbl, url) THEN {r.source : r \in get_post_by_url(tbl, url)}
    ELSE {None}

add_news_post_Requeue(tbl, nid, candidate, source, t) ==
    IF get_post_by_url(tbl, candidate.url) # {}
    THEN {[tbl |-> update_post_status(tbl, candidate.url, "queued").tbl,
           nid |-> nid, added |-> <<>>, ins |-> <<>>]}
    ELSE LET post == [candidate EXCEPT !.status = "queued"]
         IN  { [tbl |-> out.tbl, nid |-> out.nid,
                added |-> IF out.ret THEN <<post>> ELSE <<>>,
                ins |-> IF out.nid > nid
                        THEN <<CHOOSE r \in out.tbl : r.id = nid>> ELSE <<>>]
               : out \in add_post(tbl, nid, post, source, t) }

\* NewsQueue.add_news, one turn of the loop over the posts: the outcomes
\* [tbl, nid, added, ins], where added is what the turn appends to
\* added_posts and ins the rows its INSERT wrote
add_news_post(tbl, nid, candidate, source, t) ==
    IF get_post_by_url(tbl, candidate.url) # {}
    THEN {[tbl |-> tbl, nid |-> nid, added |-> <<>>, ins |-> <<>>]}
    ELSE LET post == [candidate EXCEPT !.status = "queued"]
         IN  { [tbl |-> out.tbl, nid |-> out.nid,
                added |-> IF out.ret THEN <<post>> ELSE <<>>,
                ins |-> IF out.nid > nid
                        THEN <<CHOOSE r \in out.tbl : r.id = nid>> ELSE <<>>]
               : out \in add_post(tbl, nid, post, source, t) }

\* ------------------------------------------------------------ candidates
\* a Post as a collector or a test hands it over: created_at absent or any
\* time up to now, image_url absent or present, any status
Candidates(t) ==
    { Post(u, c, None, s, i, None, None, FALSE, 0) :
        u \in URLS, c \in {NoCreated} \cup 0..t,
        s \in {"queued", "processed"}, i \in {None, "img"} }

\* the posts of a list handed to add_news: created_at absent or the oldest
\* time, so that a candidate can be older than every stored row
Scraped ==
    { Post(u, c, None, s, i, None, None, FALSE, 0) :
        u \in URLS, c \in {NoCreated, 0},
        s \in {"queued", "processed"}, i \in {None, "img"} }

Last(op, url, ret, pre) ==
    [op |-> op, url |-> url, ret |-> ret, pre |-> pre, list |-> <<>>, ins |-> <<>>]

Returned(op, list, ins, pre) ==
    [op |-> op, url |-> None, ret |-> list # <<>>, pre |-> pre,
     list |-> list, ins |-> ins]

\* run_scheduler has not been started
NoScheduler ==
    [pc |-> "off", todo |-> {}, job |-> None, source |-> None, fault |-> "none",
     caught |-> None, ticks |-> 0, failed |-> 0]

\* no call of get_relevant_posts is running
NoRelevanceCall ==
    [pc |-> "off", posts |-> <<>>, i |-> 0, calls |-> 0, first |-> None,
     second |-> None, waited |-> FALSE, relevant_urls |-> {}, total |-> 0]

\* no call of filter_similar_posts has been made
NoFilterCall ==
    [new_posts |-> <<>>, existing_posts |-> <<>>, similarity |-> <<>>,
     threshold |-> 0, result |-> <<>>, called |-> FALSE]

\* the callers that may use one database file at the same time
Callers == {"A", "B"}

\* a caller that is in no operation
IdleCaller ==
    [pc |-> "idle", post |-> None, count |-> 0, queued_posts |-> <<>>,
     i |-> 0, got |-> {}]

\* ------------------------------------------------------------- actions
Init ==
    /\ ml = NoFilterCall
    /\ callers = [c \in Callers |-> IdleCaller]
    /\ sched = NoScheduler
    /\ rel = NoRelevanceCall
    /\ posts = {}
    /\ nextId = 1
    /\ now = 0
    /\ last = Last("init", None, FALSE, 0)
    /\ added_posts = <<>>
    /\ cur_source = None
    /\ inserted = <<>>
    /\ gemini_api_key = FALSE
    /\ pc = "idle"
    /\ batch = <<>>
    /\ idx = 0
    /\ relevant = {}
    /\ published = [u \in URLS |-> 0]
    /\ handed = {}

Tick ==
    /\ pc = "idle"
    /\ now < MaxTime
    /\ now' = now + 1
    /\ last' = Last("tick", None, FALSE, Cardinality(posts))
    /\ UNCHANGED <<posts, nextId, queueVars, pipeVars>>
    /\ UNCHANGED callVars

\* a direct call of DatabaseHandler.add_post(post, source)
AddPostCall ==
    /\ nextId <= MaxId
    /\ \E post \in Candidates(now), source \in Sources :
         \E out \in add_post(posts, nextId, post, source, now) :
            /\ posts' = out.tbl
            /\ nextId' = out.nid
            /\ last' = Last("add_post", post.url, out.ret, Cardinality(posts))
    /\ UNCHANGED <<now, queueVars, pipeVars>>
    /\ UNCHANGED callVars

NextStore == Tick \/ AddPostCall

SpecStore == Init /\ [][NextStore]_vars

\* ------------------------------------ base_scraper.py, the collector's cache
\* what _get_latest_news can return: at most MaxBatch articles with distinct
\* urls, created_at = datetime.now(), the default status, and an image_url
\* that the collector found or left None
LatestNews(t) ==
    UNION { { [i \in 1..k |-> Post(f[i], t, None, "queued", img[i], None, None,
                                   FALSE, 0)] :
                f \in { g \in [1..k -> URLS] :
                          \A i, j \in 1..k : i # j => g[i] # g[j] },
                img \in [1..k -> {None, "img"}] }
            : k \in 0..MaxBatch }

\* lines 58-59: for post in new_posts: self.db_handler.add_post(post, source),
\* the result of add_post is not looked at
RECURSIVE add_posts(_, _, _, _, _)
add_posts(tbl, nid, list, source, t) ==
    IF list = <<>> THEN {[tbl |-> tbl, nid |-> nid]}
    ELSE UNION { add_posts(out.tbl, out.nid, Tail(list), source, t) :
                 out \in add_post(tbl, nid, Head(list), source, t) }

\* line 55: the posts whose url is not among those of the source's rows
NotCached(tbl, new_posts, source) ==
    LET existing_urls ==
            UNION { {x.url : x \in Range(existing_posts)} :
                    existing_posts \in get_all_posts(tbl, source, None, <<>>) }
    IN  SelectSeq(new_posts, LAMBDA post : post.url \notin existing_urls)

\* BaseScraper.fetch_post_updates with caching enabled, _get_latest_news
\* having returned new_posts: the possible outcomes [tbl, nid, ret]
fetch_post_updates(tbl, nid, new_posts, source, t) ==
    { [tbl |-> out.tbl, nid |-> out.nid,
       ret |-> NotCached(tbl, new_posts, source)] :
        out \in add_posts(tbl, nid, NotCached(tbl, new_posts, source), source, t) }

\* a call of fetch_post_updates on the collector's store
FetchPostUpdates ==
    /\ nextId + MaxBatch <= MaxId + 1
    /\ \E new_posts \in LatestNews(now), source \in Sources :
         \E out \in fetch_post_updates(posts, nextId, new_posts, source, now) :
            /\ posts' = out.tbl
            /\ nextId' = out.nid
            /\ last' = Returned("fetch_post_updates", out.ret, <<>>,
                                Cardinality(posts))
    /\ UNCHANGED <<now, queueVars, pipeVars>>
    /\ UNCHANGED callVars

NextCollector == Tick \/ FetchPostUpdates

SpecCollector == Init /\ [][NextCollector]_vars

\* ---------------------------------------------------- queue, called directly
InitQueue ==
    /\ ml = NoFilterCall
    /\ callers = [c \in Callers |-> IdleCaller]
    /\ sched = NoScheduler
    /\ rel = NoRelevanceCall
    /\ posts = {}
    /\ nextId = 1
    /\ now = 0
    /\ last = Last("init", None, FALSE, 0)
    /\ added_posts = <<>>
    /\ cur_source = None
    /\ inserted = <<>>
    /\ gemini_api_key \in BOOLEAN
    /\ pc = "idle"
    /\ batch = <<>>
    /\ idx = 0
    /\ relevant = {}
    /\ published = [u \in URLS |-> 0]
    /\ handed = {}

\* NewsQueue.add_news(posts, source), entry: lines 32-44
AddNewsBegin ==
    /\ pc = "idle"
    /\ \E source \in Sources : cur_source' = source
    /\ pc' = "add_news"
    /\ idx' = 0
    /\ added_posts' = <<>>
    /\ inserted' = <<>>
    /\ last' = Last("add_news_begin", None, FALSE, Cardinality(posts))
    /\ UNCHANGED <<posts, nextId, now, gemini_api_key,
                   batch, relevant, published, handed>>
    /\ UNCHANGED callVars

\* NewsQueue.add_news, the next post of the list: with a gemini_api_key the
\* relevance answer may have dropped it from the list (line 41), otherwise
\* the loop body runs on it (lines 45-75)
AddNewsPost ==
    /\ pc = "add_news"
    /\ idx < MaxBatch
    /\ nextId <= MaxId
    /\ \E candidate \in Scraped, is_relevant \in (IF gemini_api_key THEN BOOLEAN ELSE {TRUE}) :
         IF is_relevant
         THEN \E out \in add_news_post(posts, nextId, candidate, cur_source, now) :
                 /\ posts' = out.tbl
                 /\ nextId' = out.nid
                 /\ added_posts' = added_posts \o out.added
                 /\ inserted' = inserted \o out.ins
                 /\ last' = Last("add_news_post", candidate.url,
                                 out.added # <<>>, Cardinality(posts))
         ELSE /\ last' = Last("add_news_drop", candidate.url, FALSE,
                              Cardinality(posts))
              /\ UNCHANGED <<posts, nextId, added_posts, inserted>>
    /\ idx' = idx + 1
    /\ handed' = handed \cap {r.id : r \in posts'}
    /\ UNCHANGED <<now, cur_source, gemini_api_key,
                   pc, batch, relevant, published>>
    /\ UNCHANGED callVars

\* NewsQueue.add_news, return added_posts: line 77
AddNewsReturn ==
    /\ pc = "add_news"
    /\ last' = Returned("add_news", added_posts, inserted, idx)
    /\ added_posts' = <<>>
    /\ inserted' = <<>>
    /\ cur_source' = None
    /\ pc' = "idle"
    /\ idx' = 0
    /\ UNCHANGED <<posts, nextId, now, gemini_api_key,
                   batch, relevant, published, handed>>
    /\ UNCHANGED callVars

\* NewsQueue.process_posts()
ProcessPostsCall ==
    /\ pc = "idle"
    /\ \E out \in process_posts(posts) :
         /\ posts' = out.tbl
         /\ handed' = handed \cup {x.gid : x \in Range(out.ret)}
         /\ last' = Returned("process_posts", out.ret, <<>>, Cardinality(posts))
    /\ UNCHANGED <<nextId, now, queueVars, pc, batch, idx, relevant, published>>
    /\ UNCHANGED callVars

\* NewsQueue.pop_queue()
PopQueueCall ==
    /\ pc = "idle"
    /\ \E out \in pop_queue(posts) :
         /\ posts' = out.tbl
         /\ handed' = handed \cup {x.gid : x \in Range(out.ret)}
         /\ last' = Returned("pop", out.ret, <<>>, Cardinality(posts))
    /\ UNCHANGED <<nextId, now, queueVars, pc, batch, idx, relevant, published>>
    /\ UNCHANGED callVars

NextQueue ==
    \/ Tick
    \/ AddNewsBegin
    \/ AddNewsPost
    \/ AddNewsReturn
    \/ ProcessPostsCall
    \/ PopQueueCall

SpecQueue == InitQueue /\ [][NextQueue]_vars

\* ------------------------------------------ the store's other operations
\* a candidate as a collector builds it
Fresh(u) == Post(u, NoCreated, None, "queued", "img", None, None, FALSE, 0)

\* the lists of at most n posts with distinct urls
PostLists(n) ==
    UNION { { [i \in 1..k |-> Fresh(f[i])] :
                f \in { g \in [1..k -> URLS] :
                          \A i, j \in 1..k : i # j => g[i] # g[j] } }
            : k \in 0..n }

\* a Post handed to update_post: any url, created_at absent or any time up
\* to now, status queued or processed, image_url absent or present
UpdateArgs(t) ==
    { Post(u, c, None, st, i, None, None, FALSE, 0) :
        u \in URLS, c \in {NoCreated} \cup 0..t,
        st \in {"queued", "processed"}, i \in {None, "img"} }

\* the store is empty and the clock is at its latest, so that a Post can
\* carry any earlier created_at
InitDb ==
    /\ ml = NoFilterCall
    /\ callers = [c \in Callers |-> IdleCaller]
    /\ sched = NoScheduler
    /\ rel = NoRelevanceCall
    /\ posts = {}
    /\ nextId = 1
    /\ now = MaxTime
    /\ last = Last("init", None, FALSE, 0)
    /\ added_posts = <<>>
    /\ cur_source = None
    /\ inserted = <<>>
    /\ gemini_api_key = FALSE
    /\ pc = "idle"
    /\ batch = <<>>
    /\ idx = 0
    /\ relevant = {}
    /\ published = [u \in URLS |-> 0]
    /\ handed = {}

\* a direct call of DatabaseHandler.update_post(post)
UpdatePostCall ==
    /\ \E post \in UpdateArgs(now) :
         LET out == update_post(posts, post, now)
         IN  /\ posts' = out.tbl
             /\ last' = Last("update_post", post.url, out.ret, Cardinality(posts))
    /\ UNCHANGED <<nextId, now, queueVars, pipeVars, callVars>>

\* a direct call of DatabaseHandler.update_post_status(url, status)
UpdatePostStatusCall ==
    /\ \E url \in URLS, status \in {"queued", "processed"} :
         LET out == update_post_status(posts, url, status)
         IN  /\ posts' = out.tbl
             /\ last' = Last("update_post_status", url, out.ret, Cardinality(posts))
    /\ UNCHANGED <<nextId, now, queueVars, pipeVars, callVars>>

\* a call of NewsQueue.mark_as_processed(posts)
MarkAsProcessedCall ==
    /\ \E list \in PostLists(MaxBatch) :
         LET out == mark_as_processed(posts, list, now)
         IN  /\ posts' = out.tbl
             /\ last' = Returned("mark_as_processed", list, <<>>, Cardinality(posts))
    /\ UNCHANGED <<nextId, now, queueVars, pipeVars, callVars>>

\* a call of DatabaseHandler.wipe_database()
WipeDatabaseCall ==
    /\ posts' = wipe_database(posts).tbl
    /\ last' = Last("wipe_database", None, wipe_database(posts).ret,
                    Cardinality(posts))
    /\ UNCHANGED <<nextId, now, queueVars, pipeVars, callVars>>

\* the statements of add_post at which the database can raise sqlite3.Error
FaultPoints == {"select", "count", "delete", "insert", "commit"}

\* DatabaseHandler.add_post when the statement at raises sqlite3.Error.
\* select, count and delete are inside the outer try only: the exception
\* leaves the with block, which rolls back.  insert and the commit of line
\* 101 are inside the inner try, whose handler returns False from within
\* the with block, which then commits what the connection has done so far;
\* after a failed commit that second commit may fail as well.
add_post_fault(tbl, nid, post, source, t, at) ==
    LET row == Row(nid, post, source, t)
        evicted == IF Cardinality(tbl) >= max_posts THEN Evict(tbl) ELSE {tbl}
    IN  IF at = "select" \/ UrlExists(tbl, post.url)
        THEN {[tbl |-> tbl, nid |-> nid, ret |-> FALSE]}
        ELSE IF at \in {"count", "delete"}
        THEN {[tbl |-> tbl, nid |-> nid, ret |-> FALSE]}
        ELSE IF at = "insert"
        THEN {[tbl |-> e, nid |-> nid, ret |-> FALSE] : e \in evicted}
        ELSE {[tbl |-> tbl, nid |-> nid, ret |-> FALSE]} \cup
             { IF InsertOk(e, row)
               THEN [tbl |-> e \cup {row}, nid |-> nid + 1, ret |-> FALSE]
               ELSE [tbl |-> e, nid |-> nid, ret |-> FALSE] : e \in evicted }

\* the other operations of DatabaseHandler, each one try / with / except
FaultOps ==
    {"get_all_posts", "get_post_by_url", "update_post", "update_post_status",
     "get_post_source", "wipe_database"}

\* one of them when its statement or its commit raises sqlite3.Error: the
\* with block rolls back and the handler returns False, None or []
store_fault(tbl, op) == [tbl |-> tbl, ret |-> FALSE]

\* add_post(post, source) with a database error at one of its statements
AddPostFault ==
    /\ nextId <= MaxId
    /\ \E post \in {Fresh(u) : u \in URLS}, source \in Sources,
          at \in FaultPoints :
         /\ at = "delete" => Cardinality(posts) >= max_posts
         /\ \E out \in add_post_fault(posts, nextId, post, source, now, at) :
               /\ posts' = out.tbl
               /\ nextId' = out.nid
               /\ last' = Last("add_post_fault", post.url, out.ret,
                               Cardinality(posts))
    /\ UNCHANGED <<now, queueVars, pipeVars, callVars>>

\* another store operation with a database error
StoreFault ==
    /\ \E op \in FaultOps, url \in URLS :
         /\ posts' = store_fault(posts, op).tbl
         /\ last' = Last("fault", IF op \in {"get_all_posts", "wipe_database"}
                                  THEN None ELSE url,
                         store_fault(posts, op).ret, Cardinality(posts))
    /\ UNCHANGED <<nextId, now, queueVars, pipeVars, callVars>>

NextDb ==
    \/ AddPostCall
    \/ AddPostFault
    \/ StoreFault
    \/ UpdatePostCall
    \/ UpdatePostStatusCall
    \/ MarkAsProcessedCall
    \/ WipeDatabaseCall

SpecDb == InitDb /\ [][NextDb]_vars

\* ------------------------------------------- callers that run concurrently
\* Each caller opens its own connection.  The SELECTs of add_post run outside
\* any transaction; the DELETE opens the write transaction that the INSERT
\* and the commit at the end of the with block close, and SQLite lets one
\* connection write at a time, so DELETE, INSERT and commit are one step.
\* get_all_posts and each update_post_status of process_posts are
\* connections of their own.
Start(c, pcv, post) ==
    callers' = [callers EXCEPT ![c] = [@ EXCEPT !.pc = pcv, !.post = post]]

Return(c, ids) ==
    callers' = [callers EXCEPT ![c] =
                  [IdleCaller EXCEPT !.got = callers[c].got \cup ids]]

\* caller c enters add_post(post, source)
CallerAddPost(c) ==
    /\ callers[c].pc = "idle"
    /\ nextId <= MaxId
    /\ \E u \in URLS : Start(c, "exists", Fresh(u))
    /\ UNCHANGED <<posts, nextId, now, last, queueVars, pipeVars, ml, loopVars>>

\* add_post lines 59-62: SELECT id FROM posts WHERE url
CallerExists(c) ==
    /\ callers[c].pc = "exists"
    /\ IF UrlExists(posts, callers[c].post.url)
       THEN Return(c, {})
       ELSE callers' = [callers EXCEPT ![c] = [@ EXCEPT !.pc = "count"]]
    /\ UNCHANGED <<posts, nextId, now, last, queueVars, pipeVars, ml, loopVars>>

\* add_post lines 65-66: SELECT COUNT(*) FROM posts
CallerCount(c) ==
    /\ callers[c].pc = "count"
    /\ callers' = [callers EXCEPT ![c] =
                     [@ EXCEPT !.pc = "write", !.count = Cardinality(posts)]]
    /\ UNCHANGED <<posts, nextId, now, last, queueVars, pipeVars, ml, loopVars>>

\* add_post lines 68-106: the DELETE if the count read said so, the INSERT,
\* the commit
CallerWrite(c) ==
    /\ callers[c].pc = "write"
    /\ LET row == Row(nextId, callers[c].post, "bbc", now)
           evicted == IF callers[c].count >= max_posts
                      THEN Evict(posts) ELSE {posts}
       IN  \E e \in evicted :
              IF InsertOk(e, row)
              THEN posts' = e \cup {row} /\ nextId' = nextId + 1
              ELSE posts' = e /\ nextId' = nextId
    /\ Return(c, {})
    /\ UNCHANGED <<now, last, queueVars, pipeVars, ml, loopVars>>

\* process_posts line 88: queued_posts = get_all_posts(status='queued')
CallerList(c) ==
    /\ callers[c].pc = "idle"
    /\ \E queued_posts \in get_all_posts(posts, None, "queued", <<>>) :
         callers' = [callers EXCEPT ![c] =
                       [@ EXCEPT !.pc = "update", !.i = 1,
                                 !.queued_posts = queued_posts]]
    /\ UNCHANGED <<posts, nextId, now, last, queueVars, pipeVars, ml, loopVars>>

\* process_posts lines 91-92: the next update_post_status(url, 'processing')
CallerUpdate(c) ==
    /\ callers[c].pc = "update"
    /\ callers[c].i <= Len(callers[c].queued_posts)
    /\ posts' = update_post_status(
                    posts, callers[c].queued_posts[callers[c].i].url,
                    "processing").tbl
    /\ callers' = [callers EXCEPT ![c] = [@ EXCEPT !.i = @ + 1]]
    /\ UNCHANGED <<nextId, now, last, queueVars, pipeVars, ml, loopVars>>

\* process_posts line 94: return queued_posts
CallerReturn(c) ==
    /\ callers[c].pc = "update"
    /\ callers[c].i > Len(callers[c].queued_posts)
    /\ Return(c, {x.gid : x \in Range(callers[c].queued_posts)})
    /\ UNCHANGED <<posts, nextId, now, last, queueVars, pipeVars, ml, loopVars>>

NextConcurrent ==
    \E c \in Callers :
       \/ CallerAddPost(c)
       \/ CallerExists(c)
       \/ CallerCount(c)
       \/ CallerWrite(c)
       \/ CallerList(c)
       \/ CallerUpdate(c)
       \/ CallerReturn(c)

SpecConcurrent == Init /\ [][NextConcurrent]_vars

\* ------------------------------------------------ ml_handler.py, the filter
\* filter_similar_posts(new_posts, existing_posts, threshold): a placeholder
\* that returns new_posts
filter_similar_posts(new_posts, existing_posts, threshold) == new_posts

\* how alike the texts of two posts are: symmetric, and MaxSim for a post
\* and itself
Similarities ==
    { f \in [URLS \X URLS -> 0..MaxSim] :
        \A u, v \in URLS : f[u, v] = f[v, u] /\ f[u, u] = MaxSim }

\* the arguments of a call of filter_similar_posts
InitFilter ==
    /\ \E np \in PostLists(MaxBatch), ep \in PostLists(MaxBatch),
          sim \in Similarities, th \in 0..MaxSim :
         ml = [new_posts |-> np, existing_posts |-> ep, similarity |-> sim,
               threshold |-> th, result |-> <<>>, called |-> FALSE]
    /\ callers = [c \in Callers |-> IdleCaller]
    /\ sched = NoScheduler
    /\ rel = NoRelevanceCall
    /\ posts = {}
    /\ nextId = 1
    /\ now = 0
    /\ last = Last("init", None, FALSE, 0)
    /\ added_posts = <<>>
    /\ cur_source = None
    /\ inserted = <<>>
    /\ gemini_api_key = FALSE
    /\ pc = "idle"
    /\ batch = <<>>
    /\ idx = 0
    /\ relevant = {}
    /\ published = [u \in URLS |-> 0]
    /\ handed = {}

\* a call of filter_similar_posts with those arguments
FilterCall ==
    /\ ~ml.called
    /\ ml' = [ml EXCEPT
                !.result = filter_similar_posts(ml.new_posts, ml.existing_posts,
                                                ml.threshold),
                !.called = TRUE]
    /\ last' = Last("filter_similar_posts", None, TRUE, Cardinality(posts))
    /\ UNCHANGED <<posts, nextId, now, queueVars, pipeVars, callers, loopVars>>

NextFilter == FilterCall

SpecFilter == InitFilter /\ [][NextFilter]_vars

\* ------------------------------------------- schedule_script.py, the pipeline
\* keys of the scrapers dict
scrapers == Sources

\* the post the for loop of process_news_queue is at
Cur == batch[idx]

\* what scraper.fetch_post_full_text can hand to the unpacking of line 135:
\* a (text, image_url) pair, the text possibly empty, or an exception
FetchOutcomes ==
    {"raise"} \cup ({"", "text"} \X {None, "img"})

\* what api_handler.add_post can return: a response with an id or slug, a
\* response without one, or None
PublishOutcomes == {"id", "no_id", "failed"}

\* the number of publish calls made so far
RECURSIVE SumOver(_, _)
SumOver(f, S) ==
    IF S = {} THEN 0
    ELSE LET u == CHOOSE x \in S : TRUE IN f[u] + SumOver(f, S \ {u})

Calls(f) == SumOver(f, DOMAIN f)

NextPost_Abort ==
    /\ pc' = "idle"
    /\ idx' = 0
    /\ relevant' = {}

\* the loop moves to the next post, or the run ends after the last one
NextPost ==
    IF idx < Len(batch)
    THEN /\ pc' = "begin"
         /\ idx' = idx + 1
         /\ UNCHANGED relevant
    ELSE /\ pc' = "idle"
         /\ idx' = 0
         /\ relevant' = {}

EndRun ==
    /\ pc' = "idle"
    /\ idx' = 0
    /\ relevant' = {}
    /\ batch' = <<>>

\* process_news_queue, line 99: processed_posts = news_queue.pop_queue()
Pop ==
    /\ pc = "idle"
    /\ \E out \in pop_queue(posts) :
         /\ posts' = out.tbl
         /\ handed' = handed \cup {x.gid : x \in Range(out.ret)}
         /\ batch' = out.ret
         /\ pc' = IF out.ret = <<>> THEN "idle" ELSE "popped"
         /\ last' = Returned("pop", out.ret, <<>>, Cardinality(posts))
    /\ UNCHANGED <<nextId, now, queueVars, idx, relevant, published>>
    /\ UNCHANGED callVars

\* lines 105-108 and 207: no GOOGLE_API_KEY, or the relevance call raised;
\* the run ends with the batch popped
RelevanceAbort ==
    /\ pc = "popped"
    /\ EndRun
    /\ last' = Last("relevance", None, FALSE, Cardinality(posts))
    /\ UNCHANGED <<posts, nextId, now, queueVars, published, handed>>
    /\ UNCHANGED callVars

\* lines 110-119: one relevance call for the whole batch
Relevance ==
    /\ pc = "popped"
    /\ relevant' \in SUBSET {x.url : x \in Range(batch)}
    /\ pc' = "begin"
    /\ idx' = 1
    /\ last' = Last("relevance", None, TRUE, Cardinality(posts))
    /\ UNCHANGED <<posts, nextId, now, queueVars, batch, published, handed>>
    /\ UNCHANGED callVars

Skip_WriteBack ==
    /\ pc = "begin"
    /\ Cur.url \notin relevant \/ Cur.source \notin scrapers
    /\ NextPost
    /\ batch' = IF idx < Len(batch) THEN batch ELSE <<>>
    /\ posts' = update_post(posts, Cur, now).tbl
    /\ last' = Last("skip", Cur.url, FALSE, Cardinality(posts))
    /\ UNCHANGED <<nextId, now, queueVars, published, handed>>
    /\ UNCHANGED callVars

\* lines 123-125 and 195-196: not relevant, or no scraper for the source
Skip ==
    /\ pc = "begin"
    /\ Cur.url \notin relevant \/ Cur.source \notin scrapers
    /\ NextPost
    /\ batch' = IF idx < Len(batch) THEN batch ELSE <<>>
    /\ last' = Last("skip", Cur.url, FALSE, Cardinality(posts))
    /\ UNCHANGED <<posts, nextId, now, queueVars, published, handed>>
    /\ UNCHANGED callVars

\* lines 133-139: fetch the full text, keep a found image, write the object
\* back with update_post; an exception goes to lines 198-200
FetchFullText ==
    /\ pc = "begin"
    /\ Cur.url \in relevant
    /\ Cur.source \in scrapers
    /\ ~Truthy(Cur.full_text)
    /\ \E got \in FetchOutcomes :
         IF got = "raise"
         THEN /\ NextPost
              /\ batch' = IF idx < Len(batch) THEN batch ELSE <<>>
              /\ last' = Last("fetch", Cur.url, FALSE, Cardinality(posts))
              /\ UNCHANGED posts
         ELSE LET post == [Cur EXCEPT !.full_text = got[1],
                                      !.image_url = IF Truthy(got[2])
                                                    THEN got[2] ELSE @]
              IN  /\ posts' = update_post(posts, post, now).tbl
                  /\ batch' = [batch EXCEPT ![idx] = post]
                  /\ pc' = "translate"
                  /\ last' = Last("fetch", Cur.url, TRUE, Cardinality(posts))
                  /\ UNCHANGED <<idx, relevant>>
    /\ UNCHANGED <<nextId, now, queueVars, published, handed>>
    /\ UNCHANGED callVars

\* what get_article_translation can answer: (uk_title, en_title, en_text,
\* uk_text) taken from the reply, one of them possibly empty, or four Nones
TranslationOutcomes ==
    {<<None, None, None, None>>, <<"text", "text", "text", "text">>} \cup
    { [i \in 1..4 |-> IF i = k THEN "" ELSE "text"] : k \in 1..4 }

TranslationComplete_Any(translation) ==
    \E i \in DOMAIN translation : Truthy(translation[i])

\* line 151: if uk_title and en_title and en_text and uk_text
TranslationComplete(translation) ==
    \A i \in DOMAIN translation : Truthy(translation[i])

\* lines 141-163 and 193-194: get_article_translation answers the four
\* fields or (None, None, None, None); on success they are set on the
\* object and the object is written back with update_post
Translate ==
    /\ \/ pc = "translate"
       \/ /\ pc = "begin"
          /\ Cur.url \in relevant
          /\ Cur.source \in scrapers
          /\ Truthy(Cur.full_text)
    /\ \E translation \in TranslationOutcomes :
         IF TranslationComplete(translation)
         THEN LET post == [Cur EXCEPT !.tr = TRUE]
              IN  /\ posts' = update_post(posts, post, now).tbl
                  /\ batch' = [batch EXCEPT ![idx] = post]
                  /\ pc' = "publish"
                  /\ last' = [Last("translate", Cur.url, TRUE, Cardinality(posts))
                                 EXCEPT !.list = translation]
                  /\ UNCHANGED <<idx, relevant>>
         ELSE /\ NextPost
              /\ batch' = IF idx < Len(batch) THEN batch ELSE <<>>
              /\ last' = [Last("translate", Cur.url, FALSE, Cardinality(posts))
                             EXCEPT !.list = translation]
              /\ UNCHANGED posts
    /\ UNCHANGED <<nextId, now, queueVars, published, handed>>
    /\ UNCHANGED callVars

\* lines 165-181 and 187-192: api_handler.add_post(post)
Publish ==
    /\ pc = "publish"
    /\ Calls(published) < MaxPublish
    /\ published' = [published EXCEPT ![Cur.url] = @ + 1]
    /\ \E api_result \in PublishOutcomes :
         IF api_result = "id"
         THEN /\ pc' = "broadcast"
              /\ last' = Last("publish", Cur.url, TRUE, Cardinality(posts))
              /\ UNCHANGED <<batch, idx, relevant>>
         ELSE /\ NextPost
              /\ batch' = IF idx < Len(batch) THEN batch ELSE <<>>
              /\ last' = Last("publish", Cur.url, FALSE, Cardinality(posts))
    /\ UNCHANGED <<posts, nextId, now, queueVars, handed>>
    /\ UNCHANGED callVars

\* line 180: news_service_url = f"{api_handler.base_url}/uk/news/{post_id}"
news_service_url(post_id) == "base_url/uk/news/" \o post_id

\* telegram_handler.py, _format_post_message: the link the message text
\* carries, <a href='{post.url}'>
_format_post_message(post) == post.url

\* telegram_handler.py, broadcast_post: the links of what is sent to the
\* channels, the one of the message text and the one of the button; nothing
\* is sent when the bot is disabled or has no channel
broadcast_post(post, override_url, enabled) ==
    IF ~enabled THEN <<>>
    ELSE <<_format_post_message(post),
           IF override_url # None THEN override_url ELSE post.url>>

Broadcast_MarkSent ==
    /\ pc = "broadcast"
    /\ NextPost
    /\ batch' = IF idx < Len(batch) THEN batch ELSE <<>>
    /\ posts' = update_post_status(posts, Cur.url, "processed").tbl
    /\ last' = Last("broadcast", Cur.url, TRUE, Cardinality(posts))
    /\ UNCHANGED <<nextId, now, queueVars, published, handed>>
    /\ UNCHANGED callVars

\* lines 183-186: telegram_handler.broadcast_post with the service URL; an
\* exception goes to lines 198-200
Broadcast ==
    /\ pc = "broadcast"
    /\ NextPost
    /\ batch' = IF idx < Len(batch) THEN batch ELSE <<>>
    /\ \E sent \in BOOLEAN :
         last' = [Last("broadcast", Cur.url, sent, Cardinality(posts))
                     EXCEPT !.list = broadcast_post(Cur, news_service_url("id"), sent)]
    /\ UNCHANGED <<posts, nextId, now, queueVars, published, handed>>
    /\ UNCHANGED callVars

\* The scheduler: scrape_news (fetch_post_updates, then add_news) and
\* process_news_queue, one at a time.  The clock stands still here: every
\* created_at is equal, so ORDER BY created_at may produce any order and any
\* victim, which covers what distinct times would produce.
Next ==
    \/ AddNewsBegin \/ AddNewsPost \/ AddNewsReturn
    \/ Pop \/ RelevanceAbort \/ Relevance \/ Skip
    \/ FetchFullText \/ Translate \/ Publish \/ Broadcast

Spec == Init /\ [][Next]_vars

\* ------------------------------------- schedule_script.py, run_scheduler
\* what can go wrong inside a job: an exception of class Exception raised
\* by a collaborator, or a condition the job tests for
Failures ==
    {"scraper_error", "store_error", "missing_api_key", "pop_error",
     "relevance_error", "fetch_error", "translation_error", "publish_error",
     "broadcast_error"}

\* a KeyboardInterrupt is not of class Exception
Faults == {"none", "KeyboardInterrupt"} \cup Failures

ScrapeFaults == {"none", "KeyboardInterrupt", "scraper_error", "store_error"}

ProcessFaults == Faults \ {"scraper_error"}

\* the sources a scrape job can be called with; "reuters" has no scraper
JobSources == scrapers \cup {"reuters"}

scrape_news_NoCatch(source, fault) ==
    IF source \notin scrapers
    THEN [caught |-> "scrape_news:76", escapes |-> None]
    ELSE [caught |-> None, escapes |-> IF fault = "none" THEN None ELSE fault]

\* scrape_news(source) meeting the fault: where the fault ends, and the
\* exception that leaves the function (None when none does).  The store
\* handlers catch sqlite3.Error themselves and answer False or [].
scrape_news(source, fault) ==
    IF source \notin scrapers
    THEN [caught |-> "scrape_news:76", escapes |-> None]
    ELSE IF fault = "store_error"
    THEN [caught |-> "db_handler", escapes |-> None]
    ELSE IF fault = "scraper_error"
    THEN [caught |-> "scrape_news:92", escapes |-> None]
    ELSE IF fault = "KeyboardInterrupt"
    THEN [caught |-> None, escapes |-> fault]
    ELSE [caught |-> None, escapes |-> None]

\* process_news_queue() meeting the fault, in the same way
process_news_queue(fault) ==
    IF fault = "missing_api_key"
    THEN [caught |-> "process_news_queue:106", escapes |-> None]
    ELSE IF fault = "store_error"
    THEN [caught |-> "db_handler", escapes |-> None]
    ELSE IF fault \in {"pop_error", "relevance_error"}
    THEN [caught |-> "process_news_queue:207", escapes |-> None]
    ELSE IF fault \in {"fetch_error", "translation_error", "publish_error",
                       "broadcast_error"}
    THEN [caught |-> "process_news_queue:198", escapes |-> None]
    ELSE IF fault = "KeyboardInterrupt"
    THEN [caught |-> None, escapes |-> fault]
    ELSE [caught |-> None, escapes |-> None]

\* lines 241-248: the initial jobs run outside any try, an exception that
\* leaves one ends the process
startup_survives(escapes) == escapes = None

\* lines 252-261: except KeyboardInterrupt breaks the loop, except Exception
\* logs, sleeps and goes on
loop_survives(escapes) == escapes # "KeyboardInterrupt"

\* the record of a job that was run
Ran(job, source, fault, r, pcv, todo) ==
    [pc |-> pcv, todo |-> todo, job |-> job, source |-> source, fault |-> fault,
     caught |-> r.caught,
     ticks |-> sched.ticks + 1,
     failed |-> IF fault \in Failures \/ source \notin scrapers \cup {None}
                THEN sched.failed + 1 ELSE sched.failed]

InitScheduler ==
    /\ ml = NoFilterCall
    /\ callers = [c \in Callers |-> IdleCaller]
    /\ sched = [NoScheduler EXCEPT !.pc = "startup", !.todo = scrapers]
    /\ rel = NoRelevanceCall
    /\ posts = {}
    /\ nextId = 1
    /\ now = 0
    /\ last = Last("init", None, FALSE, 0)
    /\ added_posts = <<>>
    /\ cur_source = None
    /\ inserted = <<>>
    /\ gemini_api_key = FALSE
    /\ pc = "idle"
    /\ batch = <<>>
    /\ idx = 0
    /\ relevant = {}
    /\ published = [u \in URLS |-> 0]
    /\ handed = {}

\* lines 243-245: the initial scrape of every source
InitialScrape ==
    /\ sched.pc = "startup"
    /\ sched.todo # {}
    /\ \E source \in sched.todo, fault \in ScrapeFaults :
         LET r == scrape_news(source, fault)
         IN  sched' = Ran("scrape_news", source, fault, r,
                          IF startup_survives(r.escapes) THEN "startup"
                          ELSE "stopped",
                          sched.todo \ {source})
    /\ UNCHANGED <<storeVars, queueVars, pipeVars, ml, callers, rel>>

\* lines 247-248: the initial queue processing, then the loop is entered
InitialProcessing ==
    /\ sched.pc = "startup"
    /\ sched.todo = {}
    /\ \E fault \in ProcessFaults :
         LET r == process_news_queue(fault)
         IN  sched' = Ran("process_news_queue", None, fault, r,
                          IF startup_survives(r.escapes) THEN "loop"
                          ELSE "stopped",
                          {})
    /\ UNCHANGED <<storeVars, queueVars, pipeVars, ml, callers, rel>>

\* lines 252-261: schedule.run_pending() runs a scrape job that is due
RunPendingScrape ==
    /\ sched.pc = "loop"
    /\ sched.ticks < MaxTicks
    /\ \E source \in JobSources, fault \in ScrapeFaults :
         LET r == scrape_news(source, fault)
         IN  sched' = Ran("scrape_news", source, fault, r,
                          IF loop_survives(r.escapes) THEN "loop"
                          ELSE "stopped",
                          {})
    /\ UNCHANGED <<storeVars, queueVars, pipeVars, ml, callers, rel>>

\* lines 252-261: schedule.run_pending() runs the queue job that is due
RunPendingProcess ==
    /\ sched.pc = "loop"
    /\ sched.ticks < MaxTicks
    /\ \E fault \in ProcessFaults :
         LET r == process_news_queue(fault)
         IN  sched' = Ran("process_news_queue", None, fault, r,
                          IF loop_survives(r.escapes) THEN "loop"
                          ELSE "stopped",
                          {})
    /\ UNCHANGED <<storeVars, queueVars, pipeVars, ml, callers, rel>>

NextScheduler ==
    InitialScrape \/ InitialProcessing \/ RunPendingScrape \/ RunPendingProcess

SpecScheduler == InitScheduler /\ [][NextScheduler]_vars

\* --------------------------------- ml_handler.py, get_relevant_posts
\* the shuffled list of posts of a call: urls, each once
ShuffledPosts ==
    UNION { { g \in [1..k -> URLS] : \A i, j \in 1..k : i # j => g[i] # g[j] }
            : k \in 0..Cardinality(URLS) }

\* line 94: batch = shuffled_posts[i:i+batch_size], as the set of its urls
BatchUrls(list, i) ==
    { list[j] : j \in { k \in DOMAIN list : k > i /\ k <= i + batch_size } }

\* the messages of the exceptions model.generate_content can raise
ErrorMessages == {"429", "quota", "timeout"}

IsRateLimit_Any(e) == e \in ErrorMessages

\* line 201: "429" in str(e) or "quota" in str(e).lower()
IsRateLimit(e) == e \in {"429", "quota"}

InitRelevance ==
    /\ ml = NoFilterCall
    /\ callers = [c \in Callers |-> IdleCaller]
    /\ sched = NoScheduler
    /\ \E list \in ShuffledPosts :
         rel = [NoRelevanceCall EXCEPT !.pc = "batch", !.posts = list]
    /\ posts = {}
    /\ nextId = 1
    /\ now = 0
    /\ last = Last("init", None, FALSE, 0)
    /\ added_posts = <<>>
    /\ cur_source = None
    /\ inserted = <<>>
    /\ gemini_api_key = FALSE
    /\ pc = "idle"
    /\ batch = <<>>
    /\ idx = 0
    /\ relevant = {}
    /\ published = [u \in URLS |-> 0]
    /\ handed = {}

\* lines 141-199 and 222: the first model call for the batch at i; its
\* answer gives urls of the batch, or it raises; an exception other than a
\* rate limit goes on to the next batch
GenerateContent ==
    /\ rel.pc = "batch"
    /\ rel.i < Len(rel.posts)
    /\ \/ \E urls \in SUBSET BatchUrls(rel.posts, rel.i) :
            rel' = [rel EXCEPT !.total = @ + 1, !.calls = 1, !.first = "ok", !.second = None,
                               !.waited = FALSE,
                               !.relevant_urls = @ \cup urls,
                               !.i = @ + batch_size]
       \/ \E e \in ErrorMessages :
            rel' = [rel EXCEPT !.total = @ + 1, !.calls = 1, !.first = e, !.second = None,
                               !.waited = FALSE,
                               !.pc = IF IsRateLimit(e) THEN "backoff" ELSE "batch",
                               !.i = IF IsRateLimit(e) THEN @ ELSE @ + batch_size]
    /\ UNCHANGED <<storeVars, queueVars, pipeVars, ml, callers, sched>>

\* lines 201-204: time.sleep(60)
Backoff ==
    /\ rel.pc = "backoff"
    /\ rel' = [rel EXCEPT !.pc = "retry", !.waited = TRUE]
    /\ UNCHANGED <<storeVars, queueVars, pipeVars, ml, callers, sched>>

\* lines 206-222: the second model call for the same batch; whatever it
\* raises is caught at line 220
RetryGenerate ==
    /\ rel.pc = "retry"
    /\ \/ \E urls \in SUBSET BatchUrls(rel.posts, rel.i) :
            rel' = [rel EXCEPT !.total = @ + 1, !.calls = 2, !.second = "ok",
                               !.relevant_urls = @ \cup urls,
                               !.pc = "batch", !.i = @ + batch_size]
       \/ \E e \in ErrorMessages :
            rel' = [rel EXCEPT !.total = @ + 1, !.calls = 2, !.second = e,
                               !.pc = "batch", !.i = @ + batch_size]
    /\ UNCHANGED <<storeVars, queueVars, pipeVars, ml, callers, sched>>

\* line 224: return list(set(relevant_urls))
ReturnRelevant ==
    /\ rel.pc = "batch"
    /\ rel.i >= Len(rel.posts)
    /\ rel' = [rel EXCEPT !.pc = "done"]
    /\ UNCHANGED <<storeVars, queueVars, pipeVars, ml, callers, sched>>

NextRelevance == GenerateContent \/ Backoff \/ RetryGenerate \/ ReturnRelevant

SpecRelevance == InitRelevance /\ [][NextRelevance]_vars

\* ================================================================ claims
CountUrl(tbl, u) == Cardinality({r \in tbl : r.url = u})

\* C1 Identity uniqueness: an add_post whose url is already stored returns
\* False and leaves the number of records unchanged, no url is ever stored
\* twice, and no add_post grows the table by more than one record.
C1_IdentityUniqueness ==
    [][ last'.op = "add_post" =>
          /\ UrlExists(posts, last'.url) =>
                (~last'.ret /\ Cardinality(posts') = Cardinality(posts))
          /\ \A u \in URLS : CountUrl(posts', u) <= 1
          /\ Cardinality(posts') <= Cardinality(posts) + 1 ]_vars

\* a second insert of a stored url has just been refused
C1_Witness ==
    /\ last.op = "add_post"
    /\ ~last.ret
    /\ UrlExists(posts, last.url)
    /\ last.pre = Cardinality(posts)

\* C2 Capacity bound: starting from the empty store, after any sequence of
\* add_post calls the table never holds more than max_posts records.
C2_CapacityBound == Cardinality(posts) <= max_posts

\* an insert into a full table has succeeded
C2_Witness ==
    /\ last.op = "add_post"
    /\ last.ret
    /\ last.pre = max_posts
    /\ Cardinality(posts) = max_posts

\* C3 Eviction victim: an add_post with a new url removes exactly one record,
\* one of minimal created_at, when the count is at or above max_posts, and
\* removes nothing when the count is below max_posts.
C3_EvictionVictim ==
    [][ (last'.op = "add_post" /\ ~UrlExists(posts, last'.url)) =>
          IF Cardinality(posts) >= max_posts
          THEN \E v \in posts :
                  /\ posts \ posts' = {v}
                  /\ \A q \in posts : v.created_at <= q.created_at
          ELSE posts \subseteq posts' ]_vars

\* an insert into a full table whose records differ in age has evicted one
C3_Witness ==
    /\ last.op = "add_post"
    /\ last.ret
    /\ last.pre >= max_posts
    /\ \E r \in posts : r.id = nextId - 1 /\ r.url = last.url
    /\ \E r, q \in posts : r.created_at < q.created_at

\* C4 Insert is all-or-nothing: whenever add_post returns False the table is
\* what it was before the call.
C4_AllOrNothing ==
    [][ (last'.op = "add_post" /\ ~last'.ret) => posts' = posts ]_vars

\* C5 Status monotonicity in the store: a stored post whose status is
\* processing or processed never has status queued again.
C5_StatusMonotone ==
    [][ \A r \in posts, q \in posts' :
          (r.id = q.id /\ r.status \in {"processing", "processed"})
             => q.status # "queued" ]_vars

\* C6 No double handoff: no pop returns a post that an earlier pop returned.
C6_NoDoubleHandoff ==
    [][ last'.op = "pop" =>
          \A i \in DOMAIN last'.list : last'.list[i].gid \notin handed ]_vars

\* C7 No double publish: the publish call is made at most once per url.
C7_NoDoublePublish == \A u \in URLS : published[u] <= 1

\* C8 No post is lost: a stored post whose status is queued is not removed
\* from the store.
C8_NoQueuedPostRemoved ==
    [][ \A r \in posts :
          r.status = "queued" => \E q \in posts' : q.id = r.id ]_vars

C10_EnqueueResult ==
    [][ last'.op = "add_news" =>
          /\ Len(last'.list) = Len(last'.ins)
          /\ \A i \in DOMAIN last'.list :
                /\ last'.list[i].url = last'.ins[i].url
                /\ last'.list[i].status = "queued"
                /\ \E r \in posts' :
                      r.url = last'.list[i].url /\ r.status = "queued" ]_vars

\* C11 Enqueue is idempotent by url: a candidate whose url is already stored,
\* with any status, is not inserted and not appended to the result, and the
\* store is left as it was; a returned post was not stored before its turn.
C11_EnqueueIdempotent ==
    [][ last'.op = "add_news_post" =>
          /\ UrlExists(posts, last'.url) =>
                /\ posts' = posts
                /\ nextId' = nextId
                /\ added_posts' = added_posts
          /\ added_posts' # added_posts => ~UrlExists(posts, last'.url) ]_vars

\* a turn of add_news has skipped a candidate whose url is stored as processed
C11_Witness ==
    /\ last.op = "add_news_post"
    /\ ~last.ret
    /\ \E r \in posts : r.url = last.url /\ r.status = "processed"
\* the greatest similarity of candidate c to the reference posts, 0 when
\* there are none
MaxSimilarity(c, reference, sim) ==
    IF reference = <<>> THEN 0
    ELSE CHOOSE m \in 0..MaxSim :
           /\ \E i \in DOMAIN reference : sim[c.url, reference[i].url] = m
           /\ \A i \in DOMAIN reference : sim[c.url, reference[i].url] <= m

\* C12 Similarity filter: the result of filter_similar_posts holds only
\* candidates, every candidate whose greatest similarity to the reference
\* posts is below the threshold, and no candidate whose greatest similarity
\* is above it; with no reference posts it holds every candidate.
C12_SimilarityFilter ==
    ml.called =>
       /\ Range(ml.result) \subseteq Range(ml.new_posts)
       /\ \A c \in Range(ml.new_posts) :
             LET m == MaxSimilarity(c, ml.existing_posts, ml.similarity)
             IN  /\ (ml.existing_posts # <<>> /\ m > ml.threshold)
                       => c \notin Range(ml.result)
                 /\ (ml.existing_posts = <<>> \/ m < ml.threshold)
                       => c \in Range(ml.result)
\* get_recent_posts(days=1): the window, in ticks of the clock
Window == 1

\* the texts of u1 and u2 are near-duplicates of each other, u3 is unlike both
NearDuplicate(u, v) == {u, v} = {"u1", "u2"}

\* C13 Time-window isolation: a candidate that is a near-duplicate of a stored
\* post with status processed and created_at within the last day is rejected
\* by add_news (a processed post older than that rejects nothing).
C13_WindowReference ==
    [][ ( /\ last'.op = "add_news_post"
          /\ \E r \in posts : /\ r.status = "processed"
                               /\ r.created_at >= now - Window
                               /\ NearDuplicate(r.url, last'.url) )
        => (posts' = posts /\ added_posts' = added_posts) ]_vars
\* C14 Concurrent inserts: with two callers interleaving add_post, the record
\* count never exceeds max_posts and no url is stored twice.
C14_ConcurrentInserts ==
    /\ Cardinality(posts) <= max_posts
    /\ \A u \in URLS : CountUrl(posts, u) <= 1

\* C15 Concurrent pops: with two callers interleaving process_posts, no post
\* is returned to both.
C15_ConcurrentPops ==
    \A c, d \in Callers : c # d => callers[c].got \cap callers[d].got = {}
\* C16 created_at immutability: the created_at of a stored post never
\* changes, whatever update_post, update_post_status or mark_as_processed is
\* handed.
C16_CreatedAtImmutable ==
    [][ \A r \in posts, q \in posts' :
          r.id = q.id => q.created_at = r.created_at ]_vars
\* the urls stored before a step and no longer stored after it
RemovedUrls == {r.url : r \in posts} \ {q.url : q \in posts'}

C18_OptionalImage ==
    \A post \in Candidates(now), source \in Sources :
       (post.image_url = None /\ ~UrlExists(posts, post.url))
          => \A out \in add_post(posts, nextId, post, source, now) :
                out.ret /\ UrlExists(out.tbl, post.url)
\* C19 Store fault containment: a store operation during which the database
\* raises an error returns its failure value and leaves the stored records
\* as they were.
C19_FaultContainment ==
    [][ last'.op \in {"add_post_fault", "fault"}
          => (~last'.ret /\ posts' = posts) ]_vars
\* C20 Publish requires a complete translation: the publish call is made for
\* a post only right after the translation step of the same run answered all
\* four fields non-empty for that post; when a field is missing the post is
\* neither published nor broadcast.
C20_PublishNeedsTranslation ==
    [][ /\ published' # published =>
             /\ last.op = "translate"
             /\ last.url = Cur.url
             /\ published'[Cur.url] = published[Cur.url] + 1
             /\ Len(last.list) = 4
             /\ \A i \in 1..4 : Truthy(last.list[i])
        /\ ( /\ last'.op = "translate"
             /\ \E i \in 1..4 : ~Truthy(last'.list[i]) )
           => /\ pc' \notin {"publish", "broadcast"}
              /\ published' = published ]_vars

\* a post has been published after a complete translation, and another
\* translation of the run came back with a field missing
C20_Witness ==
    /\ last.op = "translate"
    /\ ~last.ret
    /\ last.list # <<None, None, None, None>>
    /\ Calls(published) >= 1

\* C21: a broadcast happens only right after the publish of the same post
\* succeeded in the same run and returned an id or slug, and every link the
\* broadcast carries is the service URL built from that id, never the url
\* of the source article.
C21_BroadcastAfterPublish ==
    [][ last'.op = "broadcast" =>
          /\ last.op = "publish"
          /\ last.ret
          /\ last.url = last'.url
          /\ \A i \in DOMAIN last'.list :
               /\ last'.list[i] = news_service_url("id")
               /\ last'.list[i] # last'.url ]_vars

\* a broadcast was sent whose message text links to the source article
C21_Counterexample ==
    /\ last.op = "broadcast"
    /\ last.ret
    /\ \E i \in DOMAIN last.list : last.list[i] = last.url

\* C22: a broadcast, whatever its outcome, changes no field of any stored
\* post and neither undoes nor repeats the publish that preceded it.
C22_BroadcastFrame ==
    [][ last'.op = "broadcast" =>
          /\ posts' = posts
          /\ nextId' = nextId
          /\ published' = published ]_vars

C22_Witness ==
    /\ last.op = "broadcast"
    /\ ~last.ret
    /\ published[last.url] >= 1
    /\ \E x \in posts : x.url = last.url /\ x.status = "queued"

\* the steps process_news_queue makes on one post of the batch
PostSteps == {"skip", "fetch", "translate", "publish", "broadcast"}

\* C23: a failure on one post of the batch (full-text fetch, translation,
\* store update, publish or broadcast) never keeps the remaining posts of
\* the batch from being processed: the loop goes on with the next post and
\* the rest of the batch is as it was.
C23_PerPostIsolation ==
    [][ (last'.op \in PostSteps /\ idx < Len(batch)) =>
          /\ batch' # <<>>
          /\ \A j \in (idx + 1)..Len(batch) : batch'[j] = batch[j]
          /\ \/ idx' = idx /\ pc' \in {"translate", "publish", "broadcast"}
             \/ idx' = idx + 1 /\ pc' = "begin"
          /\ ~last'.ret => (idx' = idx + 1 /\ pc' = "begin") ]_vars

\* the first post of a batch of two failed and the loop stands at the second
C23_Witness ==
    /\ last.op \in {"fetch", "translate", "publish", "broadcast"}
    /\ ~last.ret
    /\ pc = "begin"
    /\ idx = 2
    /\ Cur.url \in relevant

\* C24: a popped post the relevance filter did not select is not fetched,
\* translated, published or broadcast in that run, and its stored record is
\* left as the pop left it: present, with a status other than queued.
C24_IrrelevantUntouched ==
    [][ /\ last'.op \in PostSteps \ {"skip"} => Cur.url \in relevant
        /\ (last'.op = "skip" /\ Cur.url \notin relevant) =>
             /\ posts' = posts
             /\ published' = published
             /\ \E x \in posts' : x.url = Cur.url /\ x.status # "queued" ]_vars

C24_Witness ==
    /\ last.op = "skip"
    /\ pc = "begin"
    /\ \E x \in posts : x.url = last.url /\ x.status = "processed"

\* C25: when the full-text fetch fails (it returns an empty text, returns
\* None, or raises) the post is not translated, published or broadcast in
\* that run.
C25_NoFullTextNoTranslation ==
    [][ /\ (last'.op = "fetch" /\ ~last'.ret) => pc' \in {"begin", "idle"}
        /\ (last'.op = "fetch" /\ last'.ret /\ ~Truthy(batch'[idx].full_text)) =>
             pc' \in {"begin", "idle"}
        /\ last'.op \in {"translate", "publish", "broadcast"} =>
             Truthy(Cur.full_text) ]_vars

\* a post whose fetched full text is empty was translated and published
C25_Counterexample ==
    /\ pc = "broadcast"
    /\ ~Truthy(Cur.full_text)

\* C26: when the translation succeeded, the stored record of the post holds
\* the enrichment values of the translation and the fetched full text
\* before the post is published.
C26_EnrichmentPersisted ==
    [][ published' # published =>
          \E x \in posts :
              /\ x.url = Cur.url
              /\ Truthy(x.ukr)
              /\ x.full_text = Cur.full_text ]_vars

\* a post was published while the enrichment columns of its stored record
\* are still empty
C26_Counterexample ==
    /\ last.op = "publish"
    /\ last.ret
    /\ \E x \in posts : x.url = last.url /\ ~Truthy(x.ukr) /\ Truthy(x.full_text)

\* C27: no failure inside scrape_news or process_news_queue (unknown
\* source, scraper error, store error, missing API key, relevance,
\* translation, publish or broadcast error) ends the scheduler: after a job
\* that failed the scheduler is where it would be had the job succeeded,
\* and it only ever stops on a KeyboardInterrupt.
C27_SchedulerSurvives ==
    [][ sched' # sched =>
          /\ (sched'.fault \in Failures \/ sched'.source = "reuters") =>
               /\ sched'.pc \in {"startup", "loop"}
               /\ sched.pc = "loop" => sched'.pc = "loop"
          /\ sched'.pc = "stopped" => sched'.fault = "KeyboardInterrupt" ]_vars

\* a job failed in the loop and a later job ran to its end
C27_Witness ==
    /\ sched.pc = "loop"
    /\ sched.failed >= 2
    /\ sched.ticks > sched.failed
    /\ sched.fault = "none"
    /\ sched.source # "reuters"

\* C30: for each batch get_relevant_posts calls the model at most twice,
\* the second time only after the first call failed with a rate-limit
\* message (429 or quota) and after the backoff wait; when the retry fails
\* too the batch adds no url and the next batch is processed.
C30_SingleRetry ==
    [][ rel' # rel =>
          /\ rel'.calls <= 2
          /\ rel'.calls = 2 =>
               /\ rel'.first \in {"429", "quota"}
               /\ rel'.waited
          /\ (rel'.calls = 2 /\ rel.calls = 1 /\ rel'.second # "ok") =>
               /\ rel'.relevant_urls = rel.relevant_urls
               /\ rel'.pc = "batch"
               /\ rel'.i = rel.i + batch_size ]_vars

\* the retry of a batch failed, urls of earlier batches are kept and a
\* batch is left to process
C30_Witness ==
    /\ rel.calls = 2
    /\ rel.second \in ErrorMessages
    /\ rel.pc = "batch"
    /\ rel.relevant_urls # {}
    /\ rel.i < Len(rel.posts)

\* the rows that satisfy every supplied filter
Matching(tbl, source, status, since) ==
    { r \in tbl : /\ (Truthy(source) => r.source = source)
                  /\ (Truthy(status) => r.status = status)
                  /\ (since # <<>> => r.created_at >= since[1]) }

\* the values of the since argument: absent, or a time from a day before
\* the clock's start up to its end
SinceArgs == {<<>>} \cup { <<t>> : t \in (0 - DayLength)..MaxTime }

\* C28: get_all_posts(source, status, since) returns exactly the stored
\* posts that satisfy every supplied filter (source equal, status equal,
\* created_at at or after since), each once, newest first; an omitted
\* filter excludes nothing.  get_recent_posts(days) is that listing with
\* since = now - days.
C28_Listing ==
    \A source \in Sources \cup {None},
       status \in {None, "queued", "processing", "processed"},
       since \in SinceArgs :
       /\ \A list \in get_all_posts(posts, source, status, since) :
            /\ Len(list) = Cardinality(Matching(posts, source, status, since))
            /\ {x.gid : x \in Range(list)}
                 = {r.id : r \in Matching(posts, source, status, since)}
            /\ \A i, j \in DOMAIN list :
                 i < j => list[i].created_at >= list[j].created_at
       /\ \A list \in get_recent_posts(posts, 0, source, status, now) :
            {x.gid : x \in Range(list)}
              = {r.id : r \in Matching(posts, source, status, <<now>>)}

\* a stored post created after since, on the day of since, is not listed
C28_Counterexample ==
    \E r \in posts :
        /\ r.created_at = 1
        /\ \A list \in get_all_posts(posts, None, None, <<0>>) :
             r.url \notin {x.url : x \in Range(list)}

\* C29: update_post on a url that is not stored returns False and creates
\* no record; on a stored url it returns True, overwrites the image, the
\* enrichment fields and the status of that record with the post's values,
\* and changes no other record nor the url or the source of that record.
C29_UpdateFrame ==
    \A post \in UpdateArgs(now) :
       LET out == update_post(posts, post, now)
       IN  /\ ~UrlExists(posts, post.url) => (~out.ret /\ out.tbl = posts)
           /\ UrlExists(posts, post.url) =>
                /\ out.ret
                /\ Cardinality(out.tbl) = Cardinality(posts)
                /\ \A r \in posts : \E q \in out.tbl :
                     /\ q.id = r.id
                     /\ q.url = r.url
                     /\ q.source = r.source
                     /\ r.url # post.url => q = r
                     /\ r.url = post.url =>
                          /\ q.image_url = post.image_url
                          /\ q.ukr = post.ukr
                          /\ q.status = post.status

\* update_post was refused on a url that is stored
C29_Counterexample ==
    /\ last.op = "update_post"
    /\ ~last.ret
    /\ UrlExists(posts, last.url)

\* C31: in one queue-processing run the relevance service is called exactly
\* once for the whole popped batch, whatever the size of the batch: when
\* get_relevant_posts returns for a non-empty batch, one model call has
\* been made.
C31_OneCallPerBatch ==
    (rel.pc = "done" /\ rel.posts # <<>>) => rel.total = 1

\* get_relevant_posts returned for a batch longer than batch_size after at
\* least one model call for each slice of batch_size posts
C31_Counterexample ==
    /\ rel.pc = "done"
    /\ Len(rel.posts) > batch_size
    /\ rel.total >= 2
    /\ rel.total * batch_size >= Len(rel.posts)
    /\ rel.second = None

\* C32: an add_news call with a non-empty batch calls the similarity filter
\* once, on the whole batch, before any candidate is inserted, and only
\* candidates the filter returned are inserted: whenever add_news inserts a
\* row, the filter has been called and the row's url is in its result.
C32_FilterOnEnqueue ==
    [][ Len(inserted') > Len(inserted) =>
          /\ ml.called
          /\ last'.url \in {x.url : x \in Range(ml.result)} ]_vars

\* add_news has inserted a candidate and no call of the filter was made
C32_Counterexample ==
    /\ pc = "add_news"
    /\ inserted # <<>>
    /\ ~ml.called

\* C33: for every stored url get_post_by_url returns a post whose fields
\* (image_url, enrichment fields, created_at, source, status, full_text)
\* equal those of the entry for that url in get_all_posts(); for a url that
\* is not stored it returns None.
C33_LookupAgreesWithListing ==
    \A u \in URLS :
       IF UrlExists(posts, u)
       THEN /\ get_post_by_url(posts, u) # {}
            /\ \A p \in get_post_by_url(posts, u),
                  list \in get_all_posts(posts, None, None, <<>>) :
                 \E i \in DOMAIN list : list[i].url = u /\ list[i] = p
       ELSE get_post_by_url(posts, u) = {}

\* a stored post has a full text, and the post get_post_by_url returns for
\* its url has none
C33_Counterexample ==
    \E r \in posts :
        /\ Truthy(r.full_text)
        /\ \E p \in get_post_by_url(posts, r.url) : p.full_text = None

\* C34: with caching enabled fetch_post_updates returns only posts whose
\* url was not in the collector's store, and every post it returns is in
\* that store when the call ends, so that a second call over the same
\* articles returns none of them again.
C34_CollectorCache ==
    [][ last'.op = "fetch_post_updates" =>
          \A x \in Range(last'.list) :
              /\ ~UrlExists(posts, x.url)
              /\ UrlExists(posts', x.url) ]_vars

\* a call returned a post that is not in the store, which had room for it
C34_Counterexample ==
    /\ last.op = "fetch_post_updates"
    /\ Cardinality(posts) < max_posts
    /\ \E x \in Range(last.list) : ~UrlExists(posts, x.url)
====
